---- MODULE Spec2Model ----
(***************************************************************************)
(* Limit-order matching engine of squidish/XChange.                        *)
(*   OrderBook            src/unnamed/part_000 (OrderBook.h), l. 191-322   *)
(*   ConcurrentQueue      src/unnamed/part_000 (main.cpp),    l. 16-59     *)
(*   AsyncMatchingEngine  src/unnamed/part_000 (main.cpp),    l. 67-108    *)
(* The specifications:                                                     *)
(*   SpecBook  the synchronous OrderBook driven by add_order and cancel;   *)
(*   SpecAdds, SpecCancels  the same book with the history of its calls;   *)
(*   Spec      the AsyncMatchingEngine: producers calling submit, the      *)
(*             worker thread, consumers calling wait_event / poll_event    *)
(*             and callers of shutdown, one step per atomic operation      *)
(*             (a mutex critical section, an atomic load or exchange, a    *)
(*             condition-variable notification).                           *)
(*   FairSpec  Spec with the fairness a thread scheduler gives.            *)
(***************************************************************************)
EXTENDS Integers, Sequences, FiniteSets, TLC

VARIABLES
    bids,        \* OrderBook::bids_     price -> FIFO of resting orders
    asks,        \* OrderBook::asks_     price -> FIFO of resting orders
    id_index,    \* OrderBook::id_index_ id -> (side, price)
    last,        \* the last public OrderBook call and what it returned
    cancelled,   \* history: the watched ids for which a cancel returned true
    inq,         \* AsyncMatchingEngine::inq_   [q, closed]
    outq,        \* AsyncMatchingEngine::outq_  [q, closed]
    running,     \* AsyncMatchingEngine::running_
    joinable,    \* worker_.joinable()
    wpc,         \* the worker thread's position in run()
    wo,          \* run(): the local Order o
    wtrades,     \* run(): the local trades
    ppc,         \* each producer thread's position in its submit loop
    pi,          \* each producer's number of completed submit calls
    spc,         \* each shutdown() caller's position
    cpc,         \* each consumer's position in wait_event
    cret,        \* each consumer's last call and its return value
    inAccepted,  \* history: orders appended to inq_, in mutex order
    inDropped,   \* history: orders whose push found inq_ closed
    inPopped,    \* history: orders the worker's pop returned, in order
    processed,   \* history: <<order, trades>> of every add_order call, in order
    outAccepted, \* history: events appended to outq_, in mutex order
    outDropped,  \* history: events whose push found outq_ closed
    outPopped,   \* history: events pop / try_pop returned, in mutex order
    submitted    \* history: per producer, the orders it passed to submit

bookVars == <<bids, asks, id_index, last, cancelled>>
queueVars == <<inq, outq>>
workerVars == <<wpc, wo, wtrades>>
producerVars == <<ppc, pi, submitted>>
consumerVars == <<cpc, cret>>
inHist == <<inAccepted, inDropped, inPopped, processed>>
outHist == <<outAccepted, outDropped, outPopped>>
engineVars == <<queueVars, running, joinable, workerVars, producerVars, spc,
                consumerVars, inHist, outHist>>
vars == <<bookVars, engineVars>>

(***************************************************************************)
(* Types.h                                                                 *)
(***************************************************************************)
Buy == "Buy"
Sell == "Sell"
Side == {Buy, Sell}

\* struct Order; ts is diagnostic only and never read by the engine.
Order(id, side, price, qty) ==
    [id |-> id, side |-> side, price |-> price, qty |-> qty]

\* struct Trade
Trade(maker_id, taker_id, price, qty) ==
    [maker_id |-> maker_id, taker_id |-> taker_id, price |-> price, qty |-> qty]

(***************************************************************************)
(* Bounds of the synchronous book specification.                           *)
(***************************************************************************)
MaxId == 3       \* order ids 1..MaxId
MaxQty == 2      \* quantities 1..MaxQty

(***************************************************************************)
(* Bound of the engine specification.                                      *)
(***************************************************************************)
MaxSubmit == 2   \* orders each producer thread submits (10 in the demo)

Ids == 1..MaxId
Prices == {1, 2} \* two price levels, in ticks
Qtys == 1..MaxQty

(***************************************************************************)
(* std::map / std::unordered_map helpers                                   *)
(***************************************************************************)
\* map::erase(key): no effect when the key is absent
MapErase(f, k) == [x \in (DOMAIN f) \ {k} |-> f[x]]

\* map::operator[](key) = v: inserts or overwrites
MapPut(f, k, v) == [x \in (DOMAIN f) \cup {k} |-> IF x = k THEN v ELSE f[x]]

EmptyMap == [x \in {} |-> 0]

\* std::min
Min(a, b) == IF a < b THEN a ELSE b

\* a slip in the comparator of AskLevels: std::greater, highest first
AskBegin_Highest(levels) ==
    CHOOSE p \in DOMAIN levels : \A q \in DOMAIN levels : p >= q

\* asks_.begin()->first : AskLevels is ordered by std::less, lowest first
AskBegin(levels) == CHOOSE p \in DOMAIN levels : \A q \in DOMAIN levels : p <= q

\* bids_.begin()->first : BidLevels is ordered by std::greater, highest first
BidBegin(levels) == CHOOSE p \in DOMAIN levels : \A q \in DOMAIN levels : p >= q

(***************************************************************************)
(* OrderBook::add_order                                                    *)
(***************************************************************************)
\* a slip in the inner loop: the trade is priced at the taker's limit
RECURSIVE FillLevel_TakerPrice(_, _, _, _)
FillLevel_TakerPrice(queue, idx, order, trades) ==
    IF order.qty > 0 /\ queue # <<>>
    THEN LET resting == Head(queue)
             traded == Min(order.qty, resting.qty)
             trades2 == Append(trades,
                          Trade(resting.id, order.id, order.price, traded))
             order2 == [order EXCEPT !.qty = @ - traded]
             resting2 == [resting EXCEPT !.qty = @ - traded]
         IN  IF resting2.qty = 0
             THEN FillLevel_TakerPrice(Tail(queue), MapErase(idx, resting.id),
                                       order2, trades2)
             ELSE [queue |-> <<resting2>> \o Tail(queue), idx |-> idx,
                   order |-> order2, trades |-> trades2]
    ELSE [queue |-> queue, idx |-> idx, order |-> order, trades |-> trades]

\* The inner while loop over one level's queue (the same text in the Buy and
\* the Sell branch): fills from the front until the taker is done, the queue
\* is empty, or the resting order keeps quantity (break).
RECURSIVE FillLevel(_, _, _, _)
FillLevel(queue, idx, order, trades) ==
    IF order.qty > 0 /\ queue # <<>>
    THEN LET resting == Head(queue)
             traded == Min(order.qty, resting.qty)
             trades2 == Append(trades,
                          Trade(resting.id, order.id, resting.price, traded))
             order2 == [order EXCEPT !.qty = @ - traded]
             resting2 == [resting EXCEPT !.qty = @ - traded]
         IN  IF resting2.qty = 0
             THEN FillLevel(Tail(queue), MapErase(idx, resting.id), order2, trades2)
             ELSE [queue |-> <<resting2>> \o Tail(queue), idx |-> idx,
                   order |-> order2, trades |-> trades2]
    ELSE [queue |-> queue, idx |-> idx, order |-> order, trades |-> trades]

\* a slip in the crossability test: an order at the best ask does not cross
BuyNotCrossable_OrEqual(order, best_px) == order.price <= best_px

\* "if (order.price < best_px) break; // not crossable"
BuyNotCrossable(order, best_px) == order.price < best_px

\* a slip in the crossability test of the Sell branch: the test is missing
SellNotCrossable_Never(order, best_px) == FALSE

\* "if (order.price > best_px) break; // not crossable"
SellNotCrossable(order, best_px) == order.price > best_px

\* The level after the inner loop: "if (queue.empty()) levels.erase(best_it)"
LevelAfter(levels, best_px, queue) ==
    IF queue = <<>> THEN MapErase(levels, best_px)
    ELSE MapPut(levels, best_px, queue)

\* Buy branch: the outer while loop crossing against the best asks
RECURSIVE CrossAsks(_, _, _, _)
CrossAsks(levels, idx, order, trades) ==
    IF order.qty > 0 /\ DOMAIN levels # {}
    THEN LET best_px == AskBegin(levels)
         IN  IF BuyNotCrossable(order, best_px)
             THEN [levels |-> levels, idx |-> idx, order |-> order, trades |-> trades]
             ELSE LET r == FillLevel(levels[best_px], idx, order, trades)
                  IN  CrossAsks(LevelAfter(levels, best_px, r.queue),
                                r.idx, r.order, r.trades)
    ELSE [levels |-> levels, idx |-> idx, order |-> order, trades |-> trades]

\* Sell branch: the outer while loop crossing against the best bids
RECURSIVE CrossBids(_, _, _, _)
CrossBids(levels, idx, order, trades) ==
    IF order.qty > 0 /\ DOMAIN levels # {}
    THEN LET best_px == BidBegin(levels)
         IN  IF SellNotCrossable(order, best_px)
             THEN [levels |-> levels, idx |-> idx, order |-> order, trades |-> trades]
             ELSE LET r == FillLevel(levels[best_px], idx, order, trades)
                  IN  CrossBids(LevelAfter(levels, best_px, r.queue),
                                r.idx, r.order, r.trades)
    ELSE [levels |-> levels, idx |-> idx, order |-> order, trades |-> trades]

\* a slip in enqueue: the residual is indexed but not stored in the ladder
LevelPushBack_Drop(levels, order) == levels

\* a slip in enqueue: push_front, the residual jumps the queue of its level
LevelPushBack_Front(levels, order) ==
    MapPut(levels, order.price,
           IF order.price \in DOMAIN levels
           THEN <<order>> \o levels[order.price] ELSE <<order>>)

\* levels[order.price].push_back(order): operator[] creates the level
LevelPushBack(levels, order) ==
    MapPut(levels, order.price,
           IF order.price \in DOMAIN levels
           THEN Append(levels[order.price], order) ELSE <<order>>)

\* OrderBook::enqueue on a book b = [bids, asks, id_index]
enqueue(b, order) ==
    [bids |-> IF order.side = Buy THEN LevelPushBack(b.bids, order) ELSE b.bids,
     asks |-> IF order.side = Buy THEN b.asks ELSE LevelPushBack(b.asks, order),
     id_index |-> MapPut(b.id_index, order.id,
                         [side |-> order.side, price |-> order.price])]

\* OrderBook::add_order on a book b: the book after the call and the trades
add_order(b, order) ==
    IF order.side = Buy
    THEN LET r == CrossAsks(b.asks, b.id_index, order, <<>>)
             b2 == [bids |-> b.bids, asks |-> r.levels, id_index |-> r.idx]
             b3 == IF r.order.qty > 0 THEN enqueue(b2, r.order) ELSE b2
         IN  [book |-> b3, trades |-> r.trades]
    ELSE LET r == CrossBids(b.bids, b.id_index, order, <<>>)
             b2 == [bids |-> r.levels, asks |-> b.asks, id_index |-> r.idx]
             b3 == IF r.order.qty > 0 THEN enqueue(b2, r.order) ELSE b2
         IN  [book |-> b3, trades |-> r.trades]

(***************************************************************************)
(* OrderBook::cancel                                                       *)
(***************************************************************************)
\* a slip in the for loop: only the front of the deque is compared
FindInLevel_FrontOnly(dq, id) ==
    IF dq # <<>> /\ dq[1].id = id THEN 1 ELSE 0

\* the for loop over the level's deque: the first position holding id, 0 if none
FindInLevel(dq, id) ==
    IF \E i \in 1..Len(dq) : dq[i].id = id
    THEN CHOOSE i \in 1..Len(dq) :
            dq[i].id = id /\ \A j \in 1..(i - 1) : dq[j].id # id
    ELSE 0

\* a slip in cancel: erase(dq.begin()) instead of erase(itq)
DequeErase_Front(dq, i) == Tail(dq)

\* deque::erase(itq)
DequeErase(dq, i) == SubSeq(dq, 1, i - 1) \o SubSeq(dq, i + 1, Len(dq))

\* a slip in cancel: the level is kept when its last order is cancelled
CancelInLevels_KeepLevel(levels, idx, id, price) ==
    IF price \notin DOMAIN levels
    THEN [levels |-> levels, idx |-> idx, ret |-> FALSE]
    ELSE LET dq == levels[price]
             i == FindInLevel(dq, id)
         IN  IF i = 0
             THEN [levels |-> levels, idx |-> idx, ret |-> FALSE]
             ELSE [levels |-> MapPut(levels, price, DequeErase(dq, i)),
                   idx |-> MapErase(idx, id), ret |-> TRUE]

\* a slip in cancel: true is returned and the order stays where it is
CancelInLevels_KeepOrder(levels, idx, id, price) ==
    IF price \notin DOMAIN levels
    THEN [levels |-> levels, idx |-> idx, ret |-> FALSE]
    ELSE LET dq == levels[price]
             i == FindInLevel(dq, id)
         IN  IF i = 0
             THEN [levels |-> levels, idx |-> idx, ret |-> FALSE]
             ELSE [levels |-> levels, idx |-> idx, ret |-> TRUE]

\* a slip in cancel: the id_index_ entry of the cancelled order is kept
CancelInLevels_KeepIndex(levels, idx, id, price) ==
    IF price \notin DOMAIN levels
    THEN [levels |-> levels, idx |-> idx, ret |-> FALSE]
    ELSE LET dq == levels[price]
             i == FindInLevel(dq, id)
         IN  IF i = 0
             THEN [levels |-> levels, idx |-> idx, ret |-> FALSE]
             ELSE [levels |-> LevelAfter(levels, price, DequeErase(dq, i)),
                   idx |-> idx, ret |-> TRUE]

\* the Buy / Sell branch of cancel on the ladder `levels` of that side
CancelInLevels(levels, idx, id, price) ==
    IF price \notin DOMAIN levels
    THEN [levels |-> levels, idx |-> idx, ret |-> FALSE]
    ELSE LET dq == levels[price]
             i == FindInLevel(dq, id)
         IN  IF i = 0
             THEN [levels |-> levels, idx |-> idx, ret |-> FALSE]
             ELSE [levels |-> LevelAfter(levels, price, DequeErase(dq, i)),
                   idx |-> MapErase(idx, id), ret |-> TRUE]

\* OrderBook::cancel on a book b: the book after the call and the result
cancel(b, id) ==
    IF id \notin DOMAIN b.id_index
    THEN [book |-> b, ret |-> FALSE]
    ELSE LET e == b.id_index[id]
         IN  IF e.side = Buy
             THEN LET r == CancelInLevels(b.bids, b.id_index, id, e.price)
                  IN  [book |-> [bids |-> r.levels, asks |-> b.asks,
                                 id_index |-> r.idx], ret |-> r.ret]
             ELSE LET r == CancelInLevels(b.asks, b.id_index, id, e.price)
                  IN  [book |-> [bids |-> b.bids, asks |-> r.levels,
                                 id_index |-> r.idx], ret |-> r.ret]

\* OrderBook::best_bid / best_ask; a std::optional<Price> is the empty
\* sequence (std::nullopt) or the one-element sequence of its value
nullopt == <<>>
best_bid(b) == IF DOMAIN b.bids = {} THEN nullopt ELSE <<BidBegin(b.bids)>>
best_ask(b) == IF DOMAIN b.asks = {} THEN nullopt ELSE <<AskBegin(b.asks)>>

\* the OrderBook object as one value
Book == [bids |-> bids, asks |-> asks, id_index |-> id_index]
EmptyBook == [bids |-> EmptyMap, asks |-> EmptyMap, id_index |-> EmptyMap]

(***************************************************************************)
(* ConcurrentQueue<T>: a queue object is [q |-> sequence, closed |-> flag]. *)
(* Each operator below is one critical section under the mutex m_.         *)
(***************************************************************************)
NewQueue == [q |-> <<>>, closed |-> FALSE]

\* a slip in push: the closed_ test is missing
QPush_IgnoreClosed(Q, v) == [Q EXCEPT !.q = Append(@, v)]

\* push, the locked block: "if (closed_) return; q_.push(std::move(v));"
QPush(Q, v) == IF Q.closed THEN Q ELSE [Q EXCEPT !.q = Append(@, v)]

\* push: whether the call goes on to cv_.notify_one() (the return on a closed
\* queue leaves the function before it)
QPushNotifies(Q) == ~Q.closed

\* a slip in pop: the wait is missing, pop goes on whatever the queue holds
QPopReady_NoWait(Q) == TRUE

\* pop: the predicate of cv_.wait
QPopReady(Q) == Q.closed \/ Q.q # <<>>

\* pop / try_pop: "if (q_.empty()) return false;"
QEmpty(Q) == Q.q = <<>>

\* a slip in pop: the newest element is handed out, q_.back()
QFront_Back(Q) == Q.q[Len(Q.q)]

\* pop / try_pop: "out = std::move(q_.front());"
QFront(Q) == Head(Q.q)

\* pop / try_pop: "q_.pop();"
QPopFront(Q) == [Q EXCEPT !.q = Tail(@)]

\* a slip in close: the flag is not set, the waiters are only notified
QClose_NoFlag(Q) == Q

\* close, the locked block: "closed_ = true;"
QClose(Q) == [Q EXCEPT !.closed = TRUE]

\* a slip in close: cv_.notify_one() in place of notify_all()
NotifyAll_One(pcs) ==
    IF \E t \in DOMAIN pcs : pcs[t] = "waiting"
    THEN LET w == CHOOSE t \in DOMAIN pcs : pcs[t] = "waiting"
         IN  [pcs EXCEPT ![w] = "woken"]
    ELSE pcs

\* cv_.notify_all() on the positions pcs of the threads that may wait on the
\* queue: every thread blocked in cv_.wait is woken
NotifyAll(pcs) ==
    [t \in DOMAIN pcs |-> IF pcs[t] = "waiting" THEN "woken" ELSE pcs[t]]

(***************************************************************************)
(* The threads of the engine specification.                                *)
(***************************************************************************)
Producers == {"t2", "main"}    \* main_async_demo: the thread t2 and the main thread
Callers == {"main", "dtor"}    \* shutdown() from eng.shutdown() and the destructor
Consumers == {"c1", "c2"}      \* threads calling wait_event / poll_event

NoOrder == [id |-> 0]
NoRet == [op |-> "none", ret |-> FALSE]

\* main_async_demo: the orders the producers submit. Thread t2 runs
\*   for (i = 0; i < MaxSubmit; ++i) eng.submit(mk(Side::Sell, 101 - (i%2), 10 + 5*(i%3)))
\* and the main thread submits the one aggressive taker mk(Side::Buy, 102, 120).
\* Ids are assigned by the caller and unique; t2's i-th order has id 100 + i
\* and the taker's id is 99.
Submits(p) == IF p = "t2" THEN MaxSubmit ELSE 1

DemoOrder(p, i) ==
    IF p = "t2" THEN Order(100 + i, Sell, 101 - (i % 2), 10 + 5 * (i % 3))
    ELSE Order(99, Buy, 102, 120)

\* EngineEvent{EngineEvent::Type::TradeBatch, std::move(trades)}
TradeBatch(trades) == [type |-> "TradeBatch", trades |-> trades]

Init ==
    /\ bids = EmptyMap /\ asks = EmptyMap /\ id_index = EmptyMap
    /\ last = [op |-> "none"]
    /\ cancelled = {}
    /\ inq = NewQueue /\ outq = NewQueue
    /\ running = TRUE            \* the constructor: running_(true)
    /\ joinable = TRUE           \* the constructor: worker_([this]{ run(); })
    /\ wpc = "loop" /\ wo = NoOrder /\ wtrades = <<>>
    /\ ppc = [p \in Producers |-> "push"]
    /\ pi = [p \in Producers |-> 0]
    /\ spc = [s \in Callers |-> "cas"]
    /\ cpc = [c \in Consumers |-> "idle"]
    /\ cret = [c \in Consumers |-> NoRet]
    /\ inAccepted = <<>> /\ inDropped = {} /\ inPopped = <<>> /\ processed = <<>>
    /\ outAccepted = <<>> /\ outDropped = {} /\ outPopped = <<>>
    /\ submitted = [p \in Producers |-> <<>>]

(***************************************************************************)
(* Producers: for (i = 0; i < MaxSubmit; ++i) eng.submit(mk(...))          *)
(***************************************************************************)
\* the end of one submit call of producer p
ProducerNext(p) ==
    /\ pi' = [pi EXCEPT ![p] = @ + 1]
    /\ ppc' = [ppc EXCEPT ![p] = IF pi[p] + 1 < Submits(p) THEN "push" ELSE "done"]

\* submit(o) -> inq_.push(o): the locked block
ProducerPush(p) ==
    /\ ppc[p] = "push"
    /\ inq' = QPush(inq, DemoOrder(p, pi[p]))
    /\ submitted' = [submitted EXCEPT ![p] = Append(@, DemoOrder(p, pi[p]))]
    /\ IF inq.closed
       THEN /\ inDropped' = inDropped \cup {DemoOrder(p, pi[p])}
            /\ UNCHANGED inAccepted
       ELSE /\ inAccepted' = Append(inAccepted, DemoOrder(p, pi[p]))
            /\ UNCHANGED inDropped
    /\ IF QPushNotifies(inq)
       THEN /\ ppc' = [ppc EXCEPT ![p] = "notify"]
            /\ UNCHANGED pi
       ELSE ProducerNext(p)
    /\ UNCHANGED <<bookVars, outq, running, joinable, workerVars, spc,
                   consumerVars, inPopped, processed, outHist>>

\* submit -> inq_.push: cv_.notify_one(); the worker is inq_'s only waiter
ProducerNotify(p) ==
    /\ ppc[p] = "notify"
    /\ wpc' = IF wpc = "waiting" THEN "woken" ELSE wpc
    /\ ProducerNext(p)
    /\ UNCHANGED <<bookVars, queueVars, running, joinable, wo, wtrades,
                   submitted, spc, consumerVars, inHist, outHist>>

(***************************************************************************)
(* AsyncMatchingEngine::run, the worker thread                             *)
(***************************************************************************)
\* "while (running_)"
WorkerLoop ==
    /\ wpc = "loop"
    /\ wpc' = IF running THEN "pop" ELSE "exited"
    /\ UNCHANGED <<bookVars, queueVars, running, joinable, wo, wtrades,
                   producerVars, spc, consumerVars, inHist, outHist>>

\* "if (!inq_.pop(o)) break;": pop's locked part, entered on the call and
\* again after each wake-up
WorkerPop ==
    /\ wpc \in {"pop", "woken"}
    /\ IF ~QPopReady(inq)
       THEN /\ wpc' = "waiting"
            /\ UNCHANGED <<inq, wo, inPopped>>
       ELSE IF QEmpty(inq)
       THEN /\ wpc' = "exited"
            /\ UNCHANGED <<inq, wo, inPopped>>
       ELSE /\ wo' = QFront(inq)
            /\ inq' = QPopFront(inq)
            /\ inPopped' = Append(inPopped, QFront(inq))
            /\ wpc' = "add"
    /\ UNCHANGED <<bookVars, outq, running, joinable, wtrades, producerVars,
                   spc, consumerVars, inAccepted, inDropped, processed, outHist>>

\* a spurious wake-up of the worker inside cv_.wait
WorkerSpurious ==
    /\ wpc = "waiting"
    /\ wpc' = "woken"
    /\ UNCHANGED <<bookVars, queueVars, running, joinable, wo, wtrades,
                   producerVars, spc, consumerVars, inHist, outHist>>

\* the book after add_order(order), with the record of the call
BookAddOrder(order) ==
    LET r == add_order(Book, order)
    IN  /\ bids' = r.book.bids
        /\ asks' = r.book.asks
        /\ id_index' = r.book.id_index
        /\ last' = [op |-> "add_order", order |-> order, trades |-> r.trades]

\* a slip in run(): the event is pushed whether or not there are trades
HasTrades_Always(trades) == TRUE

\* run(): "!trades.empty()"
HasTrades(trades) == trades # <<>>

\* "auto trades = book_.add_order(std::move(o)); if (!trades.empty()) ..."
WorkerAdd ==
    /\ wpc = "add"
    /\ BookAddOrder(wo)
    /\ wtrades' = add_order(Book, wo).trades
    /\ processed' = Append(processed, <<wo, add_order(Book, wo).trades>>)
    /\ wpc' = IF HasTrades(add_order(Book, wo).trades) THEN "push" ELSE "loop"
    /\ UNCHANGED <<cancelled, queueVars, running, joinable, wo, producerVars,
                   spc, consumerVars, inAccepted, inDropped, inPopped, outHist>>

\* outq_.push(EngineEvent{...}): the locked block
WorkerPush ==
    /\ wpc = "push"
    /\ outq' = QPush(outq, TradeBatch(wtrades))
    /\ IF outq.closed
       THEN /\ outDropped' = outDropped \cup {TradeBatch(wtrades)}
            /\ UNCHANGED outAccepted
       ELSE /\ outAccepted' = Append(outAccepted, TradeBatch(wtrades))
            /\ UNCHANGED outDropped
    /\ wpc' = IF QPushNotifies(outq) THEN "notify" ELSE "loop"
    /\ UNCHANGED <<bookVars, inq, running, joinable, wo, wtrades, producerVars,
                   spc, consumerVars, inHist, outPopped>>

\* outq_.push: cv_.notify_one() wakes one of the consumers waiting, if any
WorkerNotify ==
    /\ wpc = "notify"
    /\ wpc' = "loop"
    /\ \/ \E c \in Consumers :
            /\ cpc[c] = "waiting"
            /\ cpc' = [cpc EXCEPT ![c] = "woken"]
       \/ /\ \A c \in Consumers : cpc[c] # "waiting"
          /\ UNCHANGED cpc
    /\ UNCHANGED <<bookVars, queueVars, running, joinable, wo, wtrades,
                   producerVars, spc, cret, inHist, outHist>>

(***************************************************************************)
(* AsyncMatchingEngine::shutdown                                           *)
(***************************************************************************)
\* "running_.compare_exchange_strong(expected, false)" with expected = true
ShutdownCas(s) ==
    /\ spc[s] = "cas"
    /\ IF running
       THEN /\ running' = FALSE
            /\ spc' = [spc EXCEPT ![s] = "close_in"]
       ELSE /\ UNCHANGED running
            /\ spc' = [spc EXCEPT ![s] = "returned"]
    /\ UNCHANGED <<bookVars, queueVars, joinable, workerVars, producerVars,
                   consumerVars, inHist, outHist>>

\* "inq_.close();": the locked block
ShutdownCloseIn(s) ==
    /\ spc[s] = "close_in"
    /\ inq' = QClose(inq)
    /\ spc' = [spc EXCEPT ![s] = "notify_in"]
    /\ UNCHANGED <<bookVars, outq, running, joinable, workerVars, producerVars,
                   consumerVars, inHist, outHist>>

\* "inq_.close();": cv_.notify_all(); the worker is inq_'s only waiter
ShutdownNotifyIn(s) ==
    /\ spc[s] = "notify_in"
    /\ wpc' = NotifyAll([w \in {"worker"} |-> wpc])["worker"]
    /\ spc' = [spc EXCEPT ![s] = "join"]
    /\ UNCHANGED <<bookVars, queueVars, running, joinable, wo, wtrades,
                   producerVars, consumerVars, inHist, outHist>>

\* "if (worker_.joinable()) worker_.join();": join returns once run() has returned
ShutdownJoin(s) ==
    /\ spc[s] = "join"
    /\ IF joinable
       THEN /\ wpc = "exited"
            /\ joinable' = FALSE
       ELSE UNCHANGED joinable
    /\ spc' = [spc EXCEPT ![s] = "close_out"]
    /\ UNCHANGED <<bookVars, queueVars, running, workerVars, producerVars,
                   consumerVars, inHist, outHist>>

\* "outq_.close();": the locked block
ShutdownCloseOut(s) ==
    /\ spc[s] = "close_out"
    /\ outq' = QClose(outq)
    /\ spc' = [spc EXCEPT ![s] = "notify_out"]
    /\ UNCHANGED <<bookVars, inq, running, joinable, workerVars, producerVars,
                   consumerVars, inHist, outHist>>

\* "outq_.close();": cv_.notify_all(), then shutdown() returns
ShutdownNotifyOut(s) ==
    /\ spc[s] = "notify_out"
    /\ cpc' = NotifyAll(cpc)
    /\ spc' = [spc EXCEPT ![s] = "returned"]
    /\ UNCHANGED <<bookVars, queueVars, running, joinable, workerVars,
                   producerVars, cret, inHist, outHist>>

(***************************************************************************)
(* Consumers: wait_event -> outq_.pop, poll_event -> outq_.try_pop         *)
(***************************************************************************)
\* wait_event: pop's locked part, entered on the call and after each wake-up
ConsumerPop(c) ==
    /\ cpc[c] \in {"idle", "woken"}
    /\ IF ~QPopReady(outq)
       THEN /\ cpc' = [cpc EXCEPT ![c] = "waiting"]
            /\ cret' = [cret EXCEPT ![c] = NoRet]
            /\ UNCHANGED <<outq, outPopped>>
       ELSE IF QEmpty(outq)
       THEN /\ cpc' = [cpc EXCEPT ![c] = "idle"]
            /\ cret' = [cret EXCEPT ![c] = [op |-> "wait_event", ret |-> FALSE]]
            /\ UNCHANGED <<outq, outPopped>>
       ELSE /\ cpc' = [cpc EXCEPT ![c] = "idle"]
            /\ cret' = [cret EXCEPT ![c] = [op |-> "wait_event", ret |-> TRUE]]
            /\ outq' = QPopFront(outq)
            /\ outPopped' = Append(outPopped, QFront(outq))
    /\ UNCHANGED <<bookVars, inq, running, joinable, workerVars, producerVars,
                   spc, inHist, outAccepted, outDropped>>

\* a spurious wake-up of consumer c inside cv_.wait
ConsumerSpurious(c) ==
    /\ cpc[c] = "waiting"
    /\ cpc' = [cpc EXCEPT ![c] = "woken"]
    /\ UNCHANGED <<bookVars, queueVars, running, joinable, workerVars,
                   producerVars, spc, cret, inHist, outHist>>

\* poll_event: try_pop, one locked block
ConsumerTryPop(c) ==
    /\ cpc[c] = "idle"
    /\ IF QEmpty(outq)
       THEN /\ cret' = [cret EXCEPT ![c] = [op |-> "poll_event", ret |-> FALSE]]
            /\ UNCHANGED <<outq, outPopped>>
       ELSE /\ cret' = [cret EXCEPT ![c] = [op |-> "poll_event", ret |-> TRUE]]
            /\ outq' = QPopFront(outq)
            /\ outPopped' = Append(outPopped, QFront(outq))
    /\ UNCHANGED <<bookVars, inq, running, joinable, workerVars, producerVars,
                   spc, cpc, inHist, outAccepted, outDropped>>

(***************************************************************************)
(* The engine specification                                                *)
(***************************************************************************)
ProducerStep == \E p \in Producers : ProducerPush(p) \/ ProducerNotify(p)
WorkerStep == WorkerLoop \/ WorkerPop \/ WorkerAdd \/ WorkerPush \/ WorkerNotify
ShutdownStep(s) ==
    \/ ShutdownCloseIn(s) \/ ShutdownNotifyIn(s) \/ ShutdownJoin(s)
    \/ ShutdownCloseOut(s) \/ ShutdownNotifyOut(s)

Next ==
    \/ ProducerStep
    \/ WorkerStep
    \/ WorkerSpurious
    \/ \E s \in Callers : ShutdownCas(s) \/ ShutdownStep(s)
    \/ \E c \in Consumers : ConsumerPop(c) \/ ConsumerSpurious(c) \/ ConsumerTryPop(c)

Spec == Init /\ [][Next]_vars

\* The engine under fair scheduling, for the progress properties. The
\* scenario: the main thread submits its order, the worker runs, two
\* consumers block in wait_event, and shutdown() is called from the main
\* thread and from the destructor. (No order crosses here, so the worker
\* never reaches its push of an event.)
NextLive ==
    \/ ProducerPush("main") \/ ProducerNotify("main")
    \/ WorkerLoop \/ WorkerPop \/ WorkerAdd
    \/ WorkerSpurious
    \/ \E s \in Callers : ShutdownCas(s) \/ ShutdownStep(s)
    \/ \E c \in Consumers : ConsumerPop(c) \/ ConsumerSpurious(c)

\* The scheduler runs every thread that can take a step: a thread inside
\* submit, run or shutdown goes on, and a consumer that was woken re-acquires
\* the mutex. Nothing obliges a caller to call shutdown or wait_event, and a
\* spurious wake-up need not happen.
Fairness ==
    /\ WF_vars(ProducerPush("main") \/ ProducerNotify("main"))
    /\ WF_vars(WorkerLoop \/ WorkerPop \/ WorkerAdd)
    /\ \A s \in Callers : WF_vars(ShutdownStep(s))
    /\ \A c \in Consumers : WF_vars(cpc[c] = "woken" /\ ConsumerPop(c))

FairSpec == Init /\ [][NextLive]_vars /\ Fairness

(***************************************************************************)
(* The synchronous book specification: add_order and cancel called         *)
(* directly, each order with qty > 0 and an id that is not resting.        *)
(***************************************************************************)
BookCancel(id) ==
    LET r == cancel(Book, id)
    IN  /\ bids' = r.book.bids
        /\ asks' = r.book.asks
        /\ id_index' = r.book.id_index
        /\ last' = [op |-> "cancel", id |-> id, ret |-> r.ret]

\* the orders and the ids resting in the ladder `levels`
RestingOrders(levels) ==
    UNION {{levels[p][i] : i \in 1..Len(levels[p])} : p \in DOMAIN levels}

RestingIds(levels) == {o.id : o \in RestingOrders(levels)}

CallAddOrder ==
    \E id \in Ids \ (RestingIds(bids) \cup RestingIds(asks)) :
        \E side \in Side, price \in Prices, qty \in Qtys :
            /\ BookAddOrder(Order(id, side, price, qty))
            /\ UNCHANGED <<cancelled, engineVars>>

CallCancel ==
    \E id \in Ids :
        /\ BookCancel(id)
        /\ UNCHANGED <<cancelled, engineVars>>

NextBook == CallAddOrder \/ CallCancel

SpecBook == Init /\ [][NextBook]_vars

(***************************************************************************)
(* The book with the history of its calls.                                 *)
(*   SpecAdds     add_order only, the ids 1, 2, ... in submission order,   *)
(*                every call appended to `processed`;                      *)
(*   SpecCancels  add_order and cancel as in SpecBook, every watched id    *)
(*                whose cancel returned true recorded in `cancelled`.      *)
(***************************************************************************)
LoggedAddOrder ==
    /\ Len(processed) < MaxId
    /\ \E side \in Side, price \in Prices, qty \in Qtys :
          LET order == Order(Len(processed) + 1, side, price, qty)
          IN  /\ BookAddOrder(order)
              /\ processed' = Append(processed, <<order, add_order(Book, order).trades>>)
    /\ UNCHANGED <<cancelled, queueVars, running, joinable, workerVars,
                   producerVars, spc, consumerVars, inAccepted, inDropped,
                   inPopped, outHist>>

NextAdds == LoggedAddOrder

SpecAdds == Init /\ [][NextAdds]_vars

\* The ids whose successful cancels are recorded. The book only compares ids
\* for equality, so what one id can do every id can do.
Watched == {1}

LoggedCancel ==
    \E id \in Ids :
        /\ BookCancel(id)
        /\ cancelled' = IF cancel(Book, id).ret /\ id \in Watched
                        THEN cancelled \cup {id} ELSE cancelled
        /\ UNCHANGED engineVars

NextCancels == CallAddOrder \/ LoggedCancel

SpecCancels == Init /\ [][NextCancels]_vars

(***************************************************************************)
(* Properties of the order book (SpecBook)                                 *)
(***************************************************************************)
\* the positions <<side, price, i>> at which an order with this id rests
PositionsOf(id) ==
    {<<Buy, p, i>> : <<p, i>> \in
        {<<p, i>> \in (DOMAIN bids) \X (1..MaxId) :
            i <= Len(bids[p]) /\ bids[p][i].id = id}}
    \cup
    {<<Sell, p, i>> : <<p, i>> \in
        {<<p, i>> \in (DOMAIN asks) \X (1..MaxId) :
            i <= Len(asks[p]) /\ asks[p][i].id = id}}

\* C9: the book is never crossed at rest. After every add_order and every
\* cancel either one side is empty or best_bid < best_ask, and no resting bid
\* has a price greater than or equal to the price of a resting ask.
C9_NeverCrossed ==
    /\ \/ best_bid(Book) = nullopt
       \/ best_ask(Book) = nullopt
       \/ best_bid(Book)[1] < best_ask(Book)[1]
    /\ \A b \in RestingOrders(bids), a \in RestingOrders(asks) : b.price < a.price

\* C9 witness: an order has crossed, and bids and asks both rest afterwards
C9_Witness ==
    /\ last.op = "add_order" /\ last.trades # <<>>
    /\ DOMAIN bids # {} /\ DOMAIN asks # {}

\* C10: index consistency after every add_order and cancel. Every resting
\* id appears in exactly one queue position, id_index maps it to that queue's
\* (side, price), and every key of id_index names an order present in the
\* queue it points to.
C10_IndexConsistent ==
    /\ \A id \in RestingIds(bids) \cup RestingIds(asks) :
          /\ Cardinality(PositionsOf(id)) = 1
          /\ id \in DOMAIN id_index
          /\ \A pos \in PositionsOf(id) :
                id_index[id] = [side |-> pos[1], price |-> pos[2]]
    /\ \A id \in DOMAIN id_index :
          LET e == id_index[id]
              levels == IF e.side = Buy THEN bids ELSE asks
          IN  /\ e.price \in DOMAIN levels
              /\ \E i \in 1..Len(levels[e.price]) : levels[e.price][i].id = id

\* C10 witness: a cancel has removed an order while a partially filled maker
\* and another order keep resting
C10_Witness ==
    /\ last.op = "cancel" /\ last.ret
    /\ Cardinality(DOMAIN id_index) = 2
    /\ \E o \in RestingOrders(bids) \cup RestingOrders(asks) : o.qty < MaxQty

\* C11: book well-formedness after every add_order and cancel. Every price
\* level present in bids or asks has a non-empty queue, and every resting
\* order has remaining quantity strictly greater than 0.
C11_WellFormed ==
    /\ \A p \in DOMAIN bids : bids[p] # <<>>
    /\ \A p \in DOMAIN asks : asks[p] # <<>>
    /\ \A o \in RestingOrders(bids) \cup RestingOrders(asks) : o.qty > 0

\* C11 witness: a cancel has removed the last order of one side of the book
\* while an order of less than the largest quantity rests on the other side
C11_Witness ==
    /\ last.op = "cancel" /\ last.ret
    /\ \/ DOMAIN bids = {} /\ \E o \in RestingOrders(asks) : o.qty < MaxQty
       \/ DOMAIN asks = {} /\ \E o \in RestingOrders(bids) : o.qty < MaxQty

\* the sum of trade.qty over a list of trades
RECURSIVE SumTradeQty(_)
SumTradeQty(trades) ==
    IF trades = <<>> THEN 0 ELSE Head(trades).qty + SumTradeQty(Tail(trades))

\* A step of add_order (of cancel): `last` in the new state is the record of
\* the call, the unprimed variables are the book the call found.
IsAddOrderStep == last'.op = "add_order"
IsCancelStep == last'.op = "cancel"

\* the ladder opposite to (on the side of) a taker of side `side`
Opposite(side, b, a) == IF side = Buy THEN a ELSE b
OwnSide(side, b, a) == IF side = Buy THEN b ELSE a

\* p is the best price of the ladder a taker of `side` crosses: the lowest
\* ask for a Buy, the highest bid for a Sell
IsBestFor(side, levels, p) ==
    /\ p \in DOMAIN levels
    /\ \A q \in DOMAIN levels : IF side = Buy THEN p <= q ELSE p >= q

\* the ladder after the head of level p has been filled by qty
AfterFill(levels, p, qty) ==
    LET head == Head(levels[p])
    IN  IF head.qty > qty
        THEN MapPut(levels, p, <<[head EXCEPT !.qty = @ - qty]>> \o Tail(levels[p]))
        ELSE IF Len(levels[p]) > 1 THEN MapPut(levels, p, Tail(levels[p]))
        ELSE MapErase(levels, p)

\* Replays the trades, in order, on the opposite ladder: each maker must be
\* the head of the best level at the moment of its fill. The result is
\* <<TRUE, ladder after the fills>> or <<FALSE, ladder at the offending trade>>.
RECURSIVE ReplayFills(_, _, _)
ReplayFills(side, levels, trades) ==
    IF trades = <<>> THEN <<TRUE, levels>>
    ELSE LET t == Head(trades)
         IN  IF /\ IsBestFor(side, levels, t.price)
                /\ Head(levels[t.price]).id = t.maker_id
                /\ Head(levels[t.price]).qty >= t.qty
             THEN ReplayFills(side, AfterFill(levels, t.price, t.qty), Tail(trades))
             ELSE <<FALSE, levels>>

\* C13: price-time priority. For every trade emitted by add_order the maker
\* is, at the moment of that fill, the order at the head of the queue of the
\* best opposite level (lowest ask for a Buy taker, highest bid for a Sell
\* taker); the opposite ladder after the call is the ladder after these
\* fills, so a partially filled maker keeps the head position of its level.
C13_PriceTimePriority ==
    [][IsAddOrderStep =>
         LET side == last'.order.side
             r == ReplayFills(side, Opposite(side, bids, asks), last'.trades)
         IN  /\ r[1]
             /\ Opposite(side, bids', asks') = r[2]]_vars

\* C13 witness: a taker has traded at two prices and has left the second
\* maker, partially filled, at the head of its level
C13_Witness ==
    /\ last.op = "add_order" /\ Len(last.trades) = 2
    /\ last.trades[1].price # last.trades[2].price
    /\ LET levels == Opposite(last.order.side, bids, asks)
           p == last.trades[2].price
       IN  p \in DOMAIN levels /\ Head(levels[p]).id = last.trades[2].maker_id

\* the order with this id rests in level p of the ladder
RestsAt(levels, p, id) ==
    /\ p \in DOMAIN levels
    /\ \E i \in 1..Len(levels[p]) : levels[p][i].id = id /\ levels[p][i].price = p

\* C14: maker-priced trades. Every Trade emitted by add_order has the price
\* of the resting (maker) order, which is the price of the level the maker
\* rests in, whatever the taker's limit; maker_id is the resting order's id,
\* taker_id the incoming order's id, and qty is strictly positive.
C14_MakerPriced ==
    [][IsAddOrderStep =>
         \A i \in 1..Len(last'.trades) :
             LET t == last'.trades[i]
             IN  /\ RestsAt(Opposite(last'.order.side, bids, asks), t.price, t.maker_id)
                 /\ t.taker_id = last'.order.id
                 /\ t.qty > 0]_vars

\* C14 witness: a taker has traded at a price that is not its own limit
C14_Witness ==
    /\ last.op = "add_order"
    /\ \E i \in 1..Len(last.trades) : last.trades[i].price # last.order.price

\* C15: cancel(id) returns true if and only if an order with that id is
\* resting at the time of the call, and then the order is gone from its level
\* queue and from id_index; otherwise (the id was never submitted, or its
\* order was fully filled on arrival or later as a maker) cancel returns
\* false and leaves the book unchanged.
C15_CancelResult ==
    [][IsCancelStep =>
         LET id == last'.id
         IN  /\ last'.ret <=> id \in RestingIds(bids) \cup RestingIds(asks)
             /\ last'.ret =>
                   /\ id \notin RestingIds(bids') \cup RestingIds(asks')
                   /\ id \notin DOMAIN id_index'
             /\ ~last'.ret => UNCHANGED <<bids, asks, id_index>>]_vars

\* C15 witness: a cancel has returned true in a book that held MaxId orders
C15_Witness ==
    /\ last.op = "cancel" /\ last.ret
    /\ Cardinality(RestingIds(bids) \cup RestingIds(asks)) = MaxId - 1

\* the positions <<price, i>> of the ladder at which an order with this id rests
LadderPositions(levels, id) ==
    UNION {{<<p, i>> : i \in {j \in 1..Len(levels[p]) : levels[p][j].id = id}} :
           p \in DOMAIN levels}

\* C17: add_order postcondition. For an order with qty > 0 the quantities of
\* the returned trades sum to order.qty minus a residual r >= 0. If r = 0 the
\* order enters neither the book nor id_index. If r > 0 exactly one resting
\* order with the submitted id, side and price and quantity r is appended at
\* the tail of the level order.price on order.side, behind all orders already
\* resting there, and id_index[id] = (side, price).
C17_AddOrderPost ==
    [][IsAddOrderStep =>
         LET o == last'.order
             r == o.qty - SumTradeQty(last'.trades)
             own == OwnSide(o.side, bids, asks)
             ownAfter == OwnSide(o.side, bids', asks')
             before == IF o.price \in DOMAIN own THEN own[o.price] ELSE <<>>
         IN  /\ r >= 0
             /\ r = 0 =>
                   /\ o.id \notin RestingIds(bids') \cup RestingIds(asks')
                   /\ o.id \notin DOMAIN id_index'
                   /\ ownAfter = own
             /\ r > 0 =>
                   /\ ownAfter = MapPut(own, o.price,
                                     Append(before, Order(o.id, o.side, o.price, r)))
                   /\ Cardinality(LadderPositions(ownAfter, o.id)) = 1
                   /\ o.id \notin RestingIds(Opposite(o.side, bids', asks'))
                   /\ o.id \in DOMAIN id_index'
                   /\ id_index'[o.id] = [side |-> o.side, price |-> o.price]]_vars

\* C17 witness: an order has been partially filled and its residual rests
C17_Witness ==
    /\ last.op = "add_order" /\ last.trades # <<>>
    /\ \E o \in RestingOrders(OwnSide(last.order.side, bids, asks)) :
          o.id = last.order.id /\ o.qty < last.order.qty

\* price p is within the limit of the taker: at or below a Buy's price, at or
\* above a Sell's price
WithinLimit(order, p) ==
    IF order.side = Buy THEN p <= order.price ELSE p >= order.price

\* C19: a taker never trades through its limit. Every trade of a Buy order
\* has trade.price <= order.price and every trade of a Sell order has
\* trade.price >= order.price; crossing stops at the first best opposite
\* level whose price is worse than the limit, so the levels beyond the limit
\* are untouched and a residual rests only when no level within the limit is
\* left; an order whose limit does not reach the best opposite price
\* produces no trades.
C19_NoTradeThrough ==
    [][IsAddOrderStep =>
         LET o == last'.order
             opp == Opposite(o.side, bids, asks)
             oppAfter == Opposite(o.side, bids', asks')
         IN  /\ \A i \in 1..Len(last'.trades) : WithinLimit(o, last'.trades[i].price)
             /\ \A p \in DOMAIN opp :
                   ~WithinLimit(o, p) => p \in DOMAIN oppAfter /\ oppAfter[p] = opp[p]
             /\ o.id \in RestingIds(OwnSide(o.side, bids', asks'))
                   => \A p \in DOMAIN oppAfter : ~WithinLimit(o, p)
             /\ (\A p \in DOMAIN opp : ~WithinLimit(o, p)) => last'.trades = <<>>]_vars

\* C19 witness: a taker has traded, has stopped at a level beyond its limit
\* and rests with its residual
C19_Witness ==
    /\ last.op = "add_order" /\ last.trades # <<>>
    /\ last.order.id \in RestingIds(OwnSide(last.order.side, bids, asks))
    /\ DOMAIN Opposite(last.order.side, bids, asks) # {}

\* the queue, and the ladder, without the order of this id: the other orders
\* unchanged and in the same relative order, levels left empty dropped
QueueWithout(dq, id) == SelectSeq(dq, LAMBDA o : o.id # id)

LadderWithout(levels, id) ==
    [p \in {q \in DOMAIN levels : QueueWithout(levels[q], id) # <<>>} |->
        QueueWithout(levels[p], id)]

\* C20: frame of cancel. A successful cancel(id) removes only the order with
\* that id: every other resting order keeps its side, price, remaining
\* quantity and relative position in its level queue, and every other entry
\* of id_index stays. A cancel that returns false changes neither bids, asks
\* nor id_index.
C20_CancelFrame ==
    [][IsCancelStep =>
         IF last'.ret
         THEN /\ bids' = LadderWithout(bids, last'.id)
              /\ asks' = LadderWithout(asks, last'.id)
              /\ id_index' = MapErase(id_index, last'.id)
              /\ bids' # bids \/ asks' # asks
         ELSE /\ bids' = bids /\ asks' = asks /\ id_index' = id_index]_vars

\* C20 witness: a cancel has returned true and two orders share a level
C20_Witness ==
    /\ last.op = "cancel" /\ last.ret
    /\ \/ \E p \in DOMAIN bids : Len(bids[p]) = 2
       \/ \E p \in DOMAIN asks : Len(asks[p]) = 2

(***************************************************************************)
(* Properties of the book with the history of its cancels (SpecCancels)    *)
(***************************************************************************)
\* C16, as stated: over any sequence of add_order and cancel calls,
\* cancel(id) returns true at most once for a given id, so no cancel returns
\* true for an id for which a cancel has returned true before.
C16_TrueAtMostOnce ==
    [][(IsCancelStep /\ last'.ret) => last'.id \notin cancelled]_vars

\* C16, amended: cancel(id) returns true at most once per submission of id.
\* Right after a cancel(id) that returned true cancel(id) would return false,
\* and an id for which cancel would return false stays so over every call
\* that is not an add_order of that id.
C16_OncePerSubmission ==
    [][\A id \in Ids :
         /\ (IsCancelStep /\ last'.ret /\ last'.id = id) => ~cancel(Book', id).ret
         /\ (~cancel(Book, id).ret /\ ~(IsAddOrderStep /\ last'.order.id = id))
               => ~cancel(Book', id).ret]_vars

\* C16 witness: a cancel of a watched id has returned false after an earlier
\* cancel of it had returned true, with other orders resting
C16_Witness ==
    /\ last.op = "cancel" /\ ~last.ret /\ last.id \in cancelled
    /\ DOMAIN id_index # {}

(***************************************************************************)
(* Properties of a run of add_order calls without cancellations (SpecAdds) *)
(***************************************************************************)
RECURSIVE SumOrderQty(_)
SumOrderQty(orders) ==
    IF orders = <<>> THEN 0 ELSE Head(orders).qty + SumOrderQty(Tail(orders))

RECURSIVE SumLevelQty(_)
SumLevelQty(levels) ==
    IF DOMAIN levels = {} THEN 0
    ELSE LET p == CHOOSE x \in DOMAIN levels : TRUE
         IN  SumOrderQty(levels[p]) + SumLevelQty(MapErase(levels, p))

\* the quantities submitted, traded and resting over the run so far
RECURSIVE SubmittedQty(_)
SubmittedQty(calls) ==
    IF calls = <<>> THEN 0 ELSE Head(calls)[1].qty + SubmittedQty(Tail(calls))

RECURSIVE TradedQty(_)
TradedQty(calls) ==
    IF calls = <<>> THEN 0
    ELSE SumTradeQty(Head(calls)[2]) + TradedQty(Tail(calls))

RestingQty == SumLevelQty(bids) + SumLevelQty(asks)

\* C12, as stated: over add_order calls without cancellations, the sum of the
\* submitted quantities equals the sum of trade.qty over the emitted trades
\* plus the sum of the resting quantities.
C12_ConservationAsStated ==
    SubmittedQty(processed) = TradedQty(processed) + RestingQty

\* C12, amended: a trade of quantity q takes q from the taker and q from the
\* maker, so the sum of the submitted quantities equals twice the sum of
\* trade.qty over the emitted trades plus the sum of the resting quantities.
C12_Conservation ==
    SubmittedQty(processed) = 2 * TradedQty(processed) + RestingQty

\* C12 witness: three orders were submitted, one of them traded against two
\* makers, and a residual rests
C12_Witness ==
    /\ Len(processed) = 3
    /\ \E i \in 1..3 : Len(processed[i][2]) = 2
    /\ RestingQty > 0

(***************************************************************************)
(* Properties of the engine (Spec, FairSpec)                               *)
(***************************************************************************)
Range(seq) == {seq[i] : i \in 1..Len(seq)}

IsPrefix(a, b) == Len(a) <= Len(b) /\ SubSeq(b, 1, Len(a)) = a

\* the orders the worker has passed to add_order, in order
ProcessedOrders == [i \in 1..Len(processed) |-> processed[i][1]]

\* the trade lists add_order returned that were not empty, in order
TradeLists ==
    LET nonEmpty == SelectSeq(processed, LAMBDA x : x[2] # <<>>)
    IN  [i \in 1..Len(nonEmpty) |-> nonEmpty[i][2]]

\* C1 as claimed (drain-before-exit): once the shutdown() call that closed
\* the queues and joined the worker has returned, every order that push
\* accepted has been passed to add_order; and the worker is never in Exited
\* while accepted orders are still queued.
C1_DrainBeforeExit ==
    /\ \A s \in Callers :
          (spc[s] = "returned" /\ ~joinable) => ProcessedOrders = inAccepted
    /\ wpc = "exited" => inq.q = <<>>

\* C2 as claimed: whenever a call to shutdown() has returned, for any caller,
\* the worker is in Exited (so no event is pushed after the return).
C2_ReturnImpliesExited ==
    \A s \in Callers : spc[s] = "returned" => wpc = "exited"

\* C3 as claimed: at most one call performs the shutdown sequence, inbound
\* is closed before the worker exits, and outbound is closed only after the
\* worker has exited.
C3_ExactlyOnceOrdered ==
    /\ Cardinality({s \in Callers : spc[s] \notin {"cas", "returned"}}) <= 1
    /\ wpc = "exited" => inq.closed
    /\ outq.closed => wpc = "exited"

\* C4: per-order event atomicity and ordering. No event push is ever dropped,
\* and the events accepted by outbound are, in order, exactly the non-empty
\* trade lists add_order returned, one TradeBatch each; only the list of the
\* order the worker is publishing (between add_order and the push) is not
\* there yet, and nothing is there for an empty list.
C4_EventsFollowOrders ==
    /\ outDropped = {}
    /\ LET pushedLists == [i \in 1..Len(outAccepted) |-> outAccepted[i].trades]
       IN  /\ \A i \in 1..Len(outAccepted) : outAccepted[i].type = "TradeBatch"
           /\ IF wpc = "push"
              THEN /\ TradeLists = Append(pushedLists, wtrades)
                   /\ wtrades # <<>>
              ELSE TradeLists = pushedLists

\* C4 witness: an order without trades was processed and no event stands
\* for it, and the two orders processed after it have one event each
C4_Witness ==
    /\ wpc = "loop"
    /\ Len(processed) = 3 /\ processed[1][2] = <<>>
    /\ Len(outAccepted) = 2

\* C5: a wait_event (blocking pop) that returns false leaves a queue that is
\* closed and empty at that moment, after the worker has exited and every
\* event it pushed has been delivered; one that returns true has removed the
\* head of the queue and delivered it.
C5_BlockingPop ==
    [][\A c \in Consumers :
          (ConsumerPop(c) /\ cret'[c].op = "wait_event") =>
              IF cret'[c].ret
              THEN /\ outq.q # <<>>
                   /\ outq'.q = Tail(outq.q)
                   /\ outPopped' = Append(outPopped, Head(outq.q))
              ELSE /\ outq.closed /\ outq.q = <<>>
                   /\ outq' = outq
                   /\ wpc = "exited"
                   /\ outPopped = outAccepted]_vars

\* C5 witness: a consumer that was blocked got false after events were delivered
C5_Witness ==
    \E c \in Consumers :
        /\ cret[c] = [op |-> "wait_event", ret |-> FALSE]
        /\ Len(outPopped) >= 2

\* C6: push on a closed queue is a silent no-op. A push that finds the queue
\* closed leaves the queue as it is and the producer goes on; the value it
\* dropped is never queued and never returned by a pop; a push that finds the
\* queue open appends its value at the tail.
C6_PushOnClosed ==
    [][/\ \A p \in Producers :
            ProducerPush(p) =>
                /\ inq.closed => (inq' = inq /\ ppc'[p] \in {"push", "done"})
                /\ ~inq.closed =>
                      inq' = [inq EXCEPT !.q = Append(inq.q, DemoOrder(p, pi[p]))]
       /\ \A v \in inDropped' :
            v \notin Range(inq'.q) /\ v \notin Range(inPopped')]_vars

\* C6 witness: a push was dropped on the closed inbound queue, which still
\* holds an accepted order that the worker, inside pop, is about to take
C6_Witness ==
    /\ inDropped # {}
    /\ inq.closed /\ inq.q # <<>>
    /\ wpc = "pop"

\* C7: FIFO and exactly-once delivery. In both queues the values accepted,
\* in the order their pushes took the mutex, are the values handed out, in
\* the order of the pops, followed by the values still queued; closing does
\* not change this, and pop and try_pop hand out the head of a closed queue
\* that still holds values. The orders of one producer reach add_order in
\* that producer's submission order.
C7_Fifo ==
    [][/\ inAccepted' = inPopped' \o inq'.q
       /\ outAccepted' = outPopped' \o outq'.q
       /\ \A c \in Consumers :
            ((ConsumerTryPop(c) \/ ConsumerPop(c)) /\ outq.q # <<>>) =>
                outPopped' = Append(outPopped, Head(outq.q))
       /\ (WorkerPop /\ inq.q # <<>>) => inPopped' = Append(inPopped, Head(inq.q))
       /\ \A p \in Producers :
            IsPrefix(SelectSeq(ProcessedOrders', LAMBDA o : o \in Range(submitted'[p])),
                     submitted'[p])]_vars

\* C7 witness: both orders of t2 and the order of main were processed, an
\* event was handed out, and outbound was closed while it still holds an
\* event that a woken consumer is about to take
C7_Witness ==
    /\ Len(submitted["t2"]) >= 2
    /\ Range(submitted["t2"]) \cup Range(submitted["main"]) \subseteq Range(ProcessedOrders)
    /\ outPopped # <<>>
    /\ outq.closed /\ outq.q # <<>>
    /\ \E c \in Consumers : cpc[c] = "woken"

\* C8: close releases all waiters. Under fair scheduling a consumer blocked
\* in pop on a closed outbound queue returns, however many are blocked, and
\* so does the worker blocked on a closed inbound queue; close on a closed
\* queue changes neither the contents nor the flag.
C8_CloseReleasesWaiters ==
    /\ \A c \in Consumers :
          (outq.closed /\ cpc[c] \in {"waiting", "woken"}) ~> (cpc[c] = "idle")
    /\ (inq.closed /\ wpc \in {"waiting", "woken"}) ~> (wpc \in {"add", "exited"})
    /\ [](inq.closed => QClose(inq) = inq)
    /\ [](outq.closed => QClose(outq) = outq)

\* C8 witness: both consumers are blocked while outbound is being closed
C8_Witness ==
    /\ outq.closed
    /\ \A c \in Consumers : cpc[c] = "waiting"

\* C18: shutdown() terminates. Under fair scheduling every call of shutdown
\* returns, whatever the worker and the producer were doing when running_
\* was true and the call began; once running_ is false the worker reaches
\* Exited, and every consumer blocked in wait_event returns. No interleaving
\* of submit, shutdown and the worker deadlocks.
C18_ShutdownTerminates ==
    /\ \A s \in Callers : (spc[s] # "cas") ~> (spc[s] = "returned")
    /\ (~running) ~> (wpc = "exited")
    /\ \A c \in Consumers :
          (~running /\ cpc[c] \in {"waiting", "woken"}) ~> (cpc[c] = "idle")

\* C18 witness: shutdown() has taken running_ from true to false while the
\* worker is blocked in inq_.pop on the empty queue, both consumers are blocked
\* in wait_event and the producer has not submitted yet
C18_Witness ==
    /\ \E s \in Callers : spc[s] = "close_in"
    /\ wpc = "waiting" /\ inq.q = <<>>
    /\ \A c \in Consumers : cpc[c] = "waiting"
    /\ ppc["main"] = "push" /\ pi["main"] = 0

====
